---------------------------- MODULE Spec2Model ----------------------------
(***************************************************************************)
(* A model of the request-routing and document-context-resolution layer    *)
(* of the python backend:                                                  *)
(*   python_backend/agent_factory.py     AgentFactory (the agent registry) *)
(*   python_backend/document_handler.py  DocumentHandler (the backends)    *)
(*   python_backend/routers/agent_router.py  the two endpoints             *)
(*                                                                         *)
(* Python values are tagged records: None is [t |-> "None"], a str is      *)
(* [t |-> "str", v |-> ...], so that `x is None` is an equality of records.*)
(* A str key is the sequence of its characters.                            *)
(***************************************************************************)
EXTENDS Integers, Sequences, FiniteSets, TLC

VARIABLES
    _agents,     \* AgentFactory._agents: mode -> Agent
    lru,         \* the lru_cache around get_agent: <<[key, value]>>, oldest first
    call_count,  \* how many times the Agent constructor has been called
    log,         \* history: the registry calls made so far, in order
    s3call,      \* history: the last DocumentHandler.get_document_from_s3 call
    ctxcall,     \* history: the last get_document_context call
    reply        \* history: the last request served by an endpoint

regVars == <<_agents, lru, call_count>>
docVars == <<s3call, ctxcall>>
vars == <<_agents, lru, call_count, log, s3call, ctxcall, reply>>

(***************************************************************************)
(* Bounds of the model.                                                    *)
(***************************************************************************)
MaxCalls == 5          \* registry calls recorded in one behaviour
MaxEarlier == 2        \* registry calls made before the request served

(***************************************************************************)
(* Python values.                                                          *)
(***************************************************************************)
None == [t |-> "None"]
\* A str value holds the sequence of its pieces (characters, or longer runs of
\* text); the empty str is Str(<<>>).
Str(s) == [t |-> "str", v |-> s]
Text(s) == Str(IF s = "" THEN <<>> ELSE <<s>>)

(***************************************************************************)
(* AgentFactory                                                            *)
(***************************************************************************)
valid_modes == <<"analyze", "edit", "create">>
ValidModes == {valid_modes[i] : i \in DOMAIN valid_modes}
\* Mode strings a caller may pass: the three modes and two others (four
\* distinct keys are needed to overflow the lru_cache).
Modes == ValidModes \cup {"bogus", "invalid_type"}

lru_maxsize == 3

\* The Agent(...) constructor call of each _create_*_agent; `id` tells two
\* instances of the same configuration apart.
_create_analyzer_agent(id) ==
    [t |-> "Agent", model |-> "gpt-4o",
     instructions |-> "DOCUMENT_ANALYZER_INSTRUCTIONS",
     tools |-> <<"summarize_document", "extract_key_points">>,
     name |-> "document_analyzer", id |-> id]

_create_editor_agent(id) ==
    [t |-> "Agent", model |-> "gpt-4o",
     instructions |-> "DOCUMENT_EDITOR_INSTRUCTIONS",
     tools |-> <<"edit_section">>,
     name |-> "document_editor", id |-> id]

_create_creator_agent(id) ==
    [t |-> "Agent", model |-> "gpt-4o",
     instructions |-> "DOCUMENT_CREATOR_INSTRUCTIONS",
     tools |-> <<"create_section">>,
     name |-> "document_creator", id |-> id]

\* Mutant of GetAgentBody: the result of the else branch is stored too, so an
\* unrecognised mode leaves a None entry in _agents.
GetAgentBodyStoresInvalid(agents, count, mode, raises) ==
    IF mode \in DOMAIN agents
    THEN [ret |-> agents[mode], agents |-> agents, count |-> count]
    ELSE IF raises /\ mode \in ValidModes
    THEN [ret |-> None, agents |-> agents, count |-> count + 1]
    ELSE LET agent == CASE mode = "analyze" -> _create_analyzer_agent(count + 1)
                        [] mode = "edit"    -> _create_editor_agent(count + 1)
                        [] mode = "create"  -> _create_creator_agent(count + 1)
                        [] OTHER            -> None
         IN [ret |-> agent,
             agents |-> [m \in DOMAIN agents \cup {mode} |->
                            IF m = mode THEN agent ELSE agents[m]],
             count |-> IF mode \in ValidModes THEN count + 1 ELSE count]

\* Mutant of GetAgentBody: the edit and create branches call each other's
\* constructor.
GetAgentBodyCrossWired(agents, count, mode, raises) ==
    IF mode \in DOMAIN agents
    THEN [ret |-> agents[mode], agents |-> agents, count |-> count]
    ELSE IF mode \notin ValidModes
    THEN [ret |-> None, agents |-> agents, count |-> count]
    ELSE IF raises
    THEN [ret |-> None, agents |-> agents, count |-> count + 1]
    ELSE LET agent == CASE mode = "analyze" -> _create_analyzer_agent(count + 1)
                        [] mode = "edit"    -> _create_creator_agent(count + 1)
                        [] mode = "create"  -> _create_editor_agent(count + 1)
         IN [ret |-> agent,
             agents |-> [m \in DOMAIN agents \cup {mode} |->
                            IF m = mode THEN agent ELSE agents[m]],
             count |-> count + 1]

\* Mutant of GetAgentBody: without the `if mode in cls._agents` test, so the
\* lru_cache alone decides whether the constructor runs.
GetAgentBodyNoRegistryCheck(agents, count, mode, raises) ==
    IF mode \notin ValidModes
    THEN [ret |-> None, agents |-> agents, count |-> count]
    ELSE IF raises
    THEN [ret |-> None, agents |-> agents, count |-> count + 1]
    ELSE LET agent == CASE mode = "analyze" -> _create_analyzer_agent(count + 1)
                        [] mode = "edit"    -> _create_editor_agent(count + 1)
                        [] mode = "create"  -> _create_creator_agent(count + 1)
         IN [ret |-> agent,
             agents |-> [m \in DOMAIN agents \cup {mode} |->
                            IF m = mode THEN agent ELSE agents[m]],
             count |-> count + 1]

\* Mutant of GetAgentBody: the failed construction is recorded in _agents,
\* as a None entry for the mode.
GetAgentBodyStoresFailure(agents, count, mode, raises) ==
    IF mode \in DOMAIN agents
    THEN [ret |-> agents[mode], agents |-> agents, count |-> count]
    ELSE IF mode \notin ValidModes
    THEN [ret |-> None, agents |-> agents, count |-> count]
    ELSE IF raises
    THEN [ret |-> None,
          agents |-> [m \in DOMAIN agents \cup {mode} |->
                         IF m = mode THEN None ELSE agents[m]],
          count |-> count + 1]
    ELSE LET agent == CASE mode = "analyze" -> _create_analyzer_agent(count + 1)
                        [] mode = "edit"    -> _create_editor_agent(count + 1)
                        [] mode = "create"  -> _create_creator_agent(count + 1)
         IN [ret |-> agent,
             agents |-> [m \in DOMAIN agents \cup {mode} |->
                            IF m = mode THEN agent ELSE agents[m]],
             count |-> count + 1]

\* The body of get_agent (what runs on an lru_cache miss).  `raises` is
\* whether the Agent constructor raises in this call.  The result is the
\* returned value, the new _agents, and the new constructor call count.
GetAgentBody(agents, count, mode, raises) ==
    IF mode \in DOMAIN agents
    THEN [ret |-> agents[mode], agents |-> agents, count |-> count]
    ELSE IF mode \notin ValidModes
    THEN [ret |-> None, agents |-> agents, count |-> count]
    ELSE IF raises
    THEN [ret |-> None, agents |-> agents, count |-> count + 1]
    ELSE LET agent == CASE mode = "analyze" -> _create_analyzer_agent(count + 1)
                        [] mode = "edit"    -> _create_editor_agent(count + 1)
                        [] mode = "create"  -> _create_creator_agent(count + 1)
         IN [ret |-> agent,
             agents |-> [m \in DOMAIN agents \cup {mode} |->
                            IF m = mode THEN agent ELSE agents[m]],
             count |-> count + 1]

\* Mutant of LruFind: the cache key leaves the mode out, so any entry hits.
LruFindAnyKey(cache, mode) ==
    IF cache = <<>> THEN 0 ELSE Len(cache)

\* functools.lru_cache: the position of `mode` in the cache, 0 on a miss.
LruFind(cache, mode) ==
    IF \E i \in DOMAIN cache : cache[i].key = mode
    THEN CHOOSE i \in DOMAIN cache : cache[i].key = mode
    ELSE 0

Remove(s, i) == [j \in 1..(Len(s) - 1) |-> IF j < i THEN s[j] ELSE s[j + 1]]

\* A hit moves the entry to the most-recently-used end.
LruTouch(cache, i) == Append(Remove(cache, i), cache[i])

\* A miss stores the result, and evicts the least recently used entry of a
\* full cache.
LruStore(cache, mode, value) ==
    Append(IF Len(cache) >= lru_maxsize THEN Tail(cache) ELSE cache,
           [key |-> mode, value |-> value])

\* Mutant of LruWrapper: a hit returns the most recently used entry, whatever
\* its key.
LruWrapperMostRecent(agents, cache, count, mode, i, b) ==
    IF i # 0
    THEN [ret |-> cache[Len(cache)].value, agents |-> agents,
          lru |-> LruTouch(cache, i), count |-> count, ran |-> 0]
    ELSE [ret |-> b.ret, agents |-> b.agents, lru |-> LruStore(cache, mode, b.ret),
          count |-> b.count, ran |-> b.count - count]

\* The lru_cache wrapper: entry i of the cache is returned on a hit (i # 0),
\* and on a miss the body runs (its result is b) and its return value is
\* stored.  `ran` is the number of constructor calls made.
LruWrapper(agents, cache, count, mode, i, b) ==
    IF i # 0
    THEN [ret |-> cache[i].value, agents |-> agents, lru |-> LruTouch(cache, i),
          count |-> count, ran |-> 0]
    ELSE [ret |-> b.ret, agents |-> b.agents, lru |-> LruStore(cache, mode, b.ret),
          count |-> b.count, ran |-> b.count - count]

\* AgentFactory.get_agent(mode) as callers see it.
GetAgent(agents, cache, count, mode, raises) ==
    LruWrapper(agents, cache, count, mode, LruFind(cache, mode),
               GetAgentBody(agents, count, mode, raises))

\* AgentFactory.reset_agents(): cls._agents = {}
ResetAgents(agents) == <<>>

Keys(cache) == {cache[i].key : i \in DOMAIN cache}

(***************************************************************************)
(* str operations used by the document handler.  A str is the sequence of  *)
(* its characters.                                                         *)
(***************************************************************************)
ascii_uppercase == <<"A", "B", "C", "D", "E", "F", "G", "H", "I", "J", "K", "L", "M",
                     "N", "O", "P", "Q", "R", "S", "T", "U", "V", "W", "X", "Y", "Z">>
ascii_lowercase == <<"a", "b", "c", "d", "e", "f", "g", "h", "i", "j", "k", "l", "m",
                     "n", "o", "p", "q", "r", "s", "t", "u", "v", "w", "x", "y", "z">>

\* str.lower()
lower(s) ==
    [i \in DOMAIN s |->
        IF \E k \in DOMAIN ascii_uppercase : ascii_uppercase[k] = s[i]
        THEN ascii_lowercase[CHOOSE k \in DOMAIN ascii_uppercase : ascii_uppercase[k] = s[i]]
        ELSE s[i]]

\* str.endswith(suffix)
endswith(s, suffix) ==
    /\ Len(s) >= Len(suffix)
    /\ SubSeq(s, Len(s) - Len(suffix) + 1, Len(s)) = suffix

\* Mutant of SplitLast: split('/')[0], the first path segment.
SplitFirst(s) ==
    IF \E i \in DOMAIN s : s[i] = "/"
    THEN LET first == CHOOSE i \in DOMAIN s :
                        s[i] = "/" /\ \A j \in DOMAIN s : s[j] = "/" => i <= j
         IN SubSeq(s, 1, first - 1)
    ELSE s

\* s.split('/')[-1] if '/' in s else s
SplitLast(s) ==
    IF \E i \in DOMAIN s : s[i] = "/"
    THEN LET last == CHOOSE i \in DOMAIN s :
                        s[i] = "/" /\ \A j \in DOMAIN s : s[j] = "/" => j <= i
         IN SubSeq(s, last + 1, Len(s))
    ELSE s

PyInt(n) == [t |-> "int", v |-> n]
Ret(content, metadata) == [t |-> "return", content |-> content, metadata |-> metadata]
Dict(d) == [t |-> "dict", d |-> d]
Exc(kind) == [t |-> "exception", kind |-> kind]
IsExc(x) == x.t = "exception"

(***************************************************************************)
(* DocumentHandler                                                         *)
(***************************************************************************)
PDF_TYPE == Text("application/pdf")
DOCX_TYPE == Text("application/vnd.openxmlformats-officedocument.wordprocessingml.document")
TEXT_TYPE == Text("text/plain")
JSON_TYPE == Text("application/json")

PDF_ERROR == Text("Error extracting text from PDF document")
DOCX_ERROR == Text("Error extracting text from DOCX document")

\* An object body is known by what each reader makes of its bytes:
\*   utf8  bytes.decode('utf-8'): the text, or None when the bytes are not UTF-8
\*   json  json.loads of that text: the value, or None when it is not JSON
\*   pdf   the page texts fitz reads, or None when fitz.open raises
\*   docx  the paragraphs and table rows python-docx reads, or None
\* Mutant of extract_text_from_pdf: without the try, the error of fitz.open
\* leaves the function.
extract_text_from_pdf_raises(body) ==
    IF body.pdf = None
    THEN Exc("FileDataError")
    ELSE Str([i \in 1..(2 * Len(body.pdf.pages)) |->
                IF i % 2 = 1 THEN body.pdf.pages[(i + 1) \div 2] ELSE "\n\n"])

\* extract_text_from_pdf: never raises.
extract_text_from_pdf(body) ==
    IF body.pdf = None
    THEN PDF_ERROR
    ELSE Str([i \in 1..(2 * Len(body.pdf.pages)) |->
                IF i % 2 = 1 THEN body.pdf.pages[(i + 1) \div 2] ELSE "\n\n"])

\* sep.join(parts)
RECURSIVE join(_, _)
join(sep, parts) ==
    IF parts = <<>> THEN <<>>
    ELSE IF Len(parts) = 1 THEN <<parts[1]>>
    ELSE <<parts[1], sep>> \o join(sep, Tail(parts))

\* extract_text_from_docx: never raises.
extract_text_from_docx(body) ==
    IF body.docx = None
    THEN DOCX_ERROR
    ELSE Str(join("\n\n", body.docx.paragraphs) \o <<"\n\n">>
             \o join("\n", body.docx.tables))

\* bytes.decode('utf-8'): the text or a UnicodeDecodeError
decode(body) == IF body.utf8 = None THEN Exc("UnicodeDecodeError") ELSE body.utf8

\* json.loads(text)
json_loads(body) == IF body.json = None THEN Exc("JSONDecodeError") ELSE body.json

\* json.dumps(value, indent=2)
json_dumps(value) == [t |-> "str", v |-> <<"json.dumps(indent=2)">>, of |-> value]

\* Mutant of Format: a recognised content type decides alone, and the
\* suffix is looked at only otherwise.
FormatContentTypeFirst(content_type, s3_key) ==
    CASE content_type = PDF_TYPE  -> "pdf"
      [] content_type = DOCX_TYPE -> "docx"
      [] content_type = TEXT_TYPE -> "txt"
      [] content_type = JSON_TYPE -> "json"
      [] OTHER ->
            IF endswith(lower(s3_key), <<".", "p", "d", "f">>) THEN "pdf"
            ELSE IF endswith(lower(s3_key), <<".", "d", "o", "c", "x">>) THEN "docx"
            ELSE IF endswith(lower(s3_key), <<".", "t", "x", "t">>) THEN "txt"
            ELSE IF endswith(lower(s3_key), <<".", "j", "s", "o", "n">>) THEN "json"
            ELSE "other"

\* Mutant of Format: the suffix tests are missing.
FormatContentTypeOnly(content_type, s3_key) ==
    CASE content_type = PDF_TYPE  -> "pdf"
      [] content_type = DOCX_TYPE -> "docx"
      [] content_type = TEXT_TYPE -> "txt"
      [] content_type = JSON_TYPE -> "json"
      [] OTHER -> "other"

\* Which branch of the if/elif chain of get_document_from_s3 runs.
Format(content_type, s3_key) ==
    IF content_type = PDF_TYPE \/ endswith(lower(s3_key), <<".", "p", "d", "f">>)
    THEN "pdf"
    ELSE IF content_type = DOCX_TYPE \/ endswith(lower(s3_key), <<".", "d", "o", "c", "x">>)
    THEN "docx"
    ELSE IF content_type = TEXT_TYPE \/ endswith(lower(s3_key), <<".", "t", "x", "t">>)
    THEN "txt"
    ELSE IF content_type = JSON_TYPE \/ endswith(lower(s3_key), <<".", "j", "s", "o", "n">>)
    THEN "json"
    ELSE "other"

\* The text extraction of get_document_from_s3: the text content, or the
\* exception raised, or Return (the early `return None, None`).
EarlyReturn == [t |-> "return None, None"]

ExtractAs(format, body) ==
    CASE format = "pdf"  -> extract_text_from_pdf(body)
      [] format = "docx" -> extract_text_from_docx(body)
      [] format = "txt"  -> decode(body)
      [] format = "json" ->
            IF IsExc(decode(body)) THEN decode(body)
            ELSE IF IsExc(json_loads(body)) THEN json_loads(body)
            ELSE LET json_content == json_loads(body) IN
                 IF json_content.t = "dict" /\ "content" \in DOMAIN json_content.d
                 THEN json_content.d["content"]
                 ELSE json_dumps(json_content)
      [] OTHER ->
            IF IsExc(decode(body)) THEN EarlyReturn ELSE decode(body)

\* The metadata dict of get_document_from_s3.
Metadata(content_type, s3_key, response) ==
         Dict([content_type |-> content_type,
               size |-> IF response.ContentLength = None THEN PyInt(0)
                        ELSE response.ContentLength,
               last_modified |-> IF response.LastModified = None THEN None
                                 ELSE Text(response.LastModified.isoformat),
               s3_key |-> Str(s3_key),
               filename |-> Str(SplitLast(s3_key))])

\* response.get('ContentType', '')
ContentTypeOf(response) ==
    IF response.ContentType = None THEN Text("") ELSE response.ContentType

\* The end of the try block, given the extracted text (or the exception
\* raised, or the early return) and the metadata.
Returned(text_content, metadata) ==
    IF text_content = EarlyReturn THEN Ret(None, None)
    ELSE IF IsExc(text_content) THEN text_content
    ELSE Ret(text_content, metadata)

\* The try block of get_document_from_s3: what it returns, or the
\* exception that leaves it.  `s3` is what s3_client.get_object does for the
\* key: it raises s3.raises, or returns s3.response.
TryBlock(s3_key, s3) ==
    IF s3.raises # None THEN s3.raises
    ELSE IF s3.response.Body.t = "exception" THEN s3.response.Body
    ELSE Returned(ExtractAs(Format(ContentTypeOf(s3.response), s3_key), s3.response.Body),
                  Metadata(ContentTypeOf(s3.response), s3_key, s3.response))

\* Mutant of Handlers: only `except ClientError` is there.
HandlersClientErrorOnly(outcome) ==
    IF IsExc(outcome) /\ outcome.kind = "ClientError" THEN Ret(None, None) ELSE outcome

\* The except clauses of get_document_from_s3, applied to what the try block
\* did: ClientError, then Exception (every exception of the try block is an
\* Exception).
Handlers(outcome) ==
    IF ~IsExc(outcome) THEN outcome
    ELSE IF outcome.kind = "ClientError" THEN Ret(None, None)
    ELSE Ret(None, None)

\* DocumentHandler.get_document_from_s3(s3_key): Ret(content, metadata), or
\* the exception it propagates.  S3_BUCKET_NAME is the configured bucket
\* (None or "" when the environment variable is unset or empty).
get_document_from_s3(S3_BUCKET_NAME, s3_key, s3) ==
    IF S3_BUCKET_NAME = None \/ S3_BUCKET_NAME = Text("")
    THEN Ret(None, None)
    ELSE Handlers(TryBlock(s3_key, s3))

test_document == <<"t", "e", "s", "t", "-", "d", "o", "c", "u", "m", "e", "n", "t">>

\* DocumentHandler.get_document_from_database(document_id): the placeholder.
get_document_from_database(document_id) ==
    IF document_id = test_document
    THEN Ret(Text("This is a sample document for testing purposes.\n\nIt contains multiple paragraphs and can be used to test the AI agent's document handling capabilities."),
             Dict([id |-> Str(document_id), name |-> Text("Test Document"),
                   type |-> Text("text")]))
    ELSE Ret(None, None)

(***************************************************************************)
(* agent_router.get_document_context                                       *)
(***************************************************************************)
HTTPException(status_code) ==
    [t |-> "exception", kind |-> "HTTPException", status_code |-> status_code]

\* metadata or {}
OrEmptyDict(metadata) ==
    IF metadata = None \/ metadata = Dict(<<>>) THEN Dict(<<>>) ELSE metadata

Found(backend, calls, fromS3, fromDb) ==
    [ret |-> Dict([content |-> backend.content,
                   metadata |-> OrEmptyDict(backend.metadata)]),
     calls |-> calls, s3 |-> fromS3, db |-> fromDb]

\* Mutant of Fallback: `if not content` in place of `if content is None`, so
\* an empty document counts as missing.
FallbackFalsy(fromS3, fromDb) ==
    IF IsExc(fromS3)
    THEN [ret |-> fromS3, calls |-> <<"s3">>, s3 |-> fromS3, db |-> None]
    ELSE IF fromS3.content # None /\ fromS3.content # Str(<<>>)
    THEN Found(fromS3, <<"s3">>, fromS3, None)
    ELSE IF fromDb.content # None /\ fromDb.content # Str(<<>>)
    THEN Found(fromDb, <<"s3", "db">>, fromS3, fromDb)
    ELSE [ret |-> HTTPException(404),
          calls |-> <<"s3", "db">>, s3 |-> fromS3, db |-> fromDb]

\* Mutant of Fallback: the database is asked first.
FallbackDatabaseFirst(fromS3, fromDb) ==
    IF fromDb.content # None
    THEN Found(fromDb, <<"db">>, None, fromDb)
    ELSE IF IsExc(fromS3)
    THEN [ret |-> fromS3, calls |-> <<"db", "s3">>, s3 |-> fromS3, db |-> fromDb]
    ELSE IF fromS3.content # None
    THEN Found(fromS3, <<"db", "s3">>, fromS3, fromDb)
    ELSE [ret |-> HTTPException(404),
          calls |-> <<"db", "s3">>, s3 |-> fromS3, db |-> fromDb]

\* The fallback chain of get_document_context, given what each backend
\* returns when called (fromS3 may be an exception get_document_from_s3 let
\* through).  `ret` is the dict returned or the exception raised, `calls` the
\* backend calls made, in order, and `s3`, `db` what each call returned (None
\* when not called).
Fallback(fromS3, fromDb) ==
    IF IsExc(fromS3)
    THEN [ret |-> fromS3, calls |-> <<"s3">>, s3 |-> fromS3, db |-> None]
    ELSE IF fromS3.content # None
    THEN Found(fromS3, <<"s3">>, fromS3, None)
    ELSE IF fromDb.content # None
    THEN Found(fromDb, <<"s3", "db">>, fromS3, fromDb)
    ELSE [ret |-> HTTPException(404),
          calls |-> <<"s3", "db">>, s3 |-> fromS3, db |-> fromDb]

\* get_document_context(document_id)
get_document_context(document_id, S3_BUCKET_NAME, s3) ==
    IF document_id = <<>>
    THEN [ret |-> Dict([content |-> Str(<<>>), metadata |-> Dict(<<>>)]),
          calls |-> <<>>, s3 |-> None, db |-> None]
    ELSE Fallback(get_document_from_s3(S3_BUCKET_NAME, document_id, s3),
                  get_document_from_database(document_id))

(***************************************************************************)
(* agent_router: the two endpoints.  A request is                          *)
(*   [mode, document_id, instruction, messages]                            *)
(* and the world it runs in is                                             *)
(*   [bucket, s3, raises, run, now]                                        *)
(* (the configured bucket, what get_object does, whether the Agent         *)
(* constructor raises, what the model call does, the clock).               *)
(***************************************************************************)
\* Python truth of an Optional[str]
Truthy(x) == x # None /\ x # Str(<<>>)

\* f"{value}"
FString(value) == IF value.t = "str" THEN value.v ELSE <<[str |-> value]>>

\* Mutant of SystemInstruction: the document content is left out.
SystemInstructionNoDocument(agent, instruction, document_context) ==
    <<agent.instructions>>
    \o (IF Truthy(instruction) THEN <<"\n\n">> \o instruction.v ELSE <<>>)

\* agent.instructions, plus the request's instruction, plus the document
\* content.
SystemInstruction(agent, instruction, document_context) ==
    <<agent.instructions>>
    \o (IF Truthy(instruction) THEN <<"\n\n">> \o instruction.v ELSE <<>>)
    \o (IF document_context # Dict(<<>>) /\ "content" \in DOMAIN document_context.d
        THEN <<"\n\nDocument content:\n">> \o FString(document_context.d["content"])
        ELSE <<>>)

\* formatted_messages
FormattedMessages(system_instruction, messages) ==
    <<[role |-> "system", content |-> Str(system_instruction)]>>
    \o [i \in DOMAIN messages |->
          [role |-> messages[i].role, content |-> messages[i].content]]

\* Mutant of Prepared: the agent is fetched before the document context, so
\* get_agent has run when the lookup raises.
PreparedAgentFirst(request, context, got, agents, cache, count) ==
    IF got.ret = None
    THEN [stop |-> "no agent", exception |-> None,
          backend_calls |-> <<>>, get_agent_calls |-> 1,
          document_context |-> None, agent |-> None,
          formatted_messages |-> <<>>,
          agents |-> got.agents, lru |-> got.lru, count |-> got.count]
    ELSE IF IsExc(context.ret)
    THEN [stop |-> "exception", exception |-> context.ret,
          backend_calls |-> context.calls, get_agent_calls |-> 1,
          document_context |-> None, agent |-> None, formatted_messages |-> <<>>,
          agents |-> got.agents, lru |-> got.lru, count |-> got.count]
    ELSE [stop |-> "", exception |-> None,
          backend_calls |-> context.calls, get_agent_calls |-> 1,
          document_context |-> context.ret, agent |-> got.ret,
          formatted_messages |->
              FormattedMessages(SystemInstruction(got.ret, request.instruction, context.ret),
                                request.messages),
          agents |-> got.agents, lru |-> got.lru, count |-> got.count]

\* The steps both endpoints take between mode validation and the model call,
\* given the outcome `context` of the document lookup and the outcome `got`
\* of AgentFactory.get_agent (made only when the lookup raised nothing).
\* `stop` is what ends the request before the model call: the exception, or
\* the missing agent ("" when the model is called).
Prepared(request, context, got, agents, cache, count) ==
    IF IsExc(context.ret)
    THEN [stop |-> "exception", exception |-> context.ret,
          backend_calls |-> context.calls, get_agent_calls |-> 0,
          document_context |-> None, agent |-> None, formatted_messages |-> <<>>,
          agents |-> agents, lru |-> cache, count |-> count]
    ELSE IF got.ret = None
    THEN [stop |-> "no agent", exception |-> None,
          backend_calls |-> context.calls, get_agent_calls |-> 1,
          document_context |-> context.ret, agent |-> None,
          formatted_messages |-> <<>>,
          agents |-> got.agents, lru |-> got.lru, count |-> got.count]
    ELSE [stop |-> "", exception |-> None,
          backend_calls |-> context.calls, get_agent_calls |-> 1,
          document_context |-> context.ret, agent |-> got.ret,
          formatted_messages |->
              FormattedMessages(SystemInstruction(got.ret, request.instruction, context.ret),
                                request.messages),
          agents |-> got.agents, lru |-> got.lru, count |-> got.count]

Prepare(request, world, agents, cache, count) ==
    Prepared(request,
             IF Truthy(request.document_id)
             THEN get_document_context(request.document_id.v, world.bucket, world.s3)
             ELSE [ret |-> Dict(<<>>), calls |-> <<>>, s3 |-> None, db |-> None],
             GetAgent(agents, cache, count, request.mode, world.raises),
             agents, cache, count)

\* Mutant of DocumentOf: the whole context, content included, is returned as
\* the document.
DocumentOfWholeContext(document_context) ==
    IF document_context = Dict(<<>>) THEN None ELSE document_context

\* document_context.get("metadata") if document_context else None
DocumentOf(document_context) ==
    IF document_context = Dict(<<>>) THEN None
    ELSE IF "metadata" \in DOMAIN document_context.d THEN document_context.d["metadata"]
    ELSE None

Rejected(status_code, detail, backend_calls, get_agent_calls, model_calls, agents, cache, count) ==
    [status_code |-> status_code, detail |-> detail, body |-> None, frames |-> <<>>,
     backend_calls |-> backend_calls, get_agent_calls |-> get_agent_calls,
     model_calls |-> model_calls, agents |-> agents, lru |-> cache, count |-> count]

InvalidModeDetail(mode) == Str(<<"Invalid mode: ", mode, ". Must be one of ", valid_modes>>)

\* Mutant of ProcessValidated: without `except HTTPException: raise`, the
\* HTTPExceptions raised in the try block reach `except Exception` and
\* become 500s.
ProcessValidatedWrapsAll(request, world, p) ==
    IF p.stop = "exception"
    THEN Rejected(500, Str(<<"Error processing message: ", "str(HTTPException)",
                             p.exception.status_code>>),
                  p.backend_calls, p.get_agent_calls, <<>>, p.agents, p.lru, p.count)
    ELSE IF p.stop = "no agent"
    THEN Rejected(500, Str(<<"Error processing message: ", "str(HTTPException)", 500>>),
                  p.backend_calls, p.get_agent_calls, <<>>, p.agents, p.lru, p.count)
    ELSE IF world.run.raises
    THEN Rejected(500, Str(<<"Error processing message: ", "model call failed">>),
                  p.backend_calls, p.get_agent_calls, <<p.formatted_messages>>,
                  p.agents, p.lru, p.count)
    ELSE [status_code |-> 200, detail |-> None,
          body |-> [message |-> [role |-> "assistant", content |-> world.run.content,
                                 id |-> world.now],
                    document |-> DocumentOf(p.document_context)],
          frames |-> <<>>,
          backend_calls |-> p.backend_calls, get_agent_calls |-> p.get_agent_calls,
          model_calls |-> <<p.formatted_messages>>,
          agents |-> p.agents, lru |-> p.lru, count |-> p.count]

\* process_agent_message once the mode has passed validation; p is what
\* Prepare did.
ProcessValidated(request, world, p) ==
    IF p.stop = "exception"
    THEN \* except HTTPException: raise
         Rejected(p.exception.status_code,
                  Str(<<"Document not found: ">> \o request.document_id.v),
                  p.backend_calls, p.get_agent_calls, <<>>, p.agents, p.lru, p.count)
    ELSE IF p.stop = "no agent"
    THEN Rejected(500, Str(<<"Failed to initialize agent for mode: ", request.mode>>),
                  p.backend_calls, p.get_agent_calls, <<>>, p.agents, p.lru, p.count)
    ELSE IF world.run.raises
    THEN \* except Exception
         Rejected(500, Str(<<"Error processing message: ", "model call failed">>),
                  p.backend_calls, p.get_agent_calls, <<p.formatted_messages>>,
                  p.agents, p.lru, p.count)
    ELSE [status_code |-> 200, detail |-> None,
          body |-> [message |-> [role |-> "assistant", content |-> world.run.content,
                                 id |-> world.now],
                    document |-> DocumentOf(p.document_context)],
          frames |-> <<>>,
          backend_calls |-> p.backend_calls, get_agent_calls |-> p.get_agent_calls,
          model_calls |-> <<p.formatted_messages>>,
          agents |-> p.agents, lru |-> p.lru, count |-> p.count]

\* A request rejected for its mode after Prepare ran (p is what it did).
RejectedLate(request, p) ==
    Rejected(400, InvalidModeDetail(request.mode), p.backend_calls,
             p.get_agent_calls, <<>>, p.agents, p.lru, p.count)

\* Mutant of ProcessAgentMessage: the mode is validated after the document
\* context and the agent have been fetched.
ProcessAgentMessageLateValidation(request, world, agents, cache, count) ==
    IF request.mode \notin ValidModes
    THEN RejectedLate(request, Prepare(request, world, agents, cache, count))
    ELSE ProcessValidated(request, world, Prepare(request, world, agents, cache, count))

\* POST /api/agent/message
ProcessAgentMessage(request, world, agents, cache, count) ==
    IF request.mode \notin ValidModes
    THEN Rejected(400, InvalidModeDetail(request.mode), <<>>, 0, <<>>, agents, cache, count)
    ELSE ProcessValidated(request, world, Prepare(request, world, agents, cache, count))

ErrorFrame(error) == [error |-> error]

Streamed(frames, backend_calls, get_agent_calls, model_calls, agents, cache, count) ==
    [status_code |-> 200, detail |-> None, body |-> None, frames |-> frames,
     backend_calls |-> backend_calls, get_agent_calls |-> get_agent_calls,
     model_calls |-> model_calls, agents |-> agents, lru |-> cache, count |-> count]

\* Mutant of GenerateSystemInstruction: the request's extra instruction is
\* left out.
GenerateSystemInstructionNoExtra(agent, instruction, document_context) ==
    <<agent.instructions>>
    \o (IF document_context # Dict(<<>>) /\ "content" \in DOMAIN document_context.d
        THEN <<"\n\nDocument content:\n">> \o FString(document_context.d["content"])
        ELSE <<>>)

\* generate(): system_instruction, built by its own copy of the statements
\* of process_agent_message.
GenerateSystemInstruction(agent, instruction, document_context) ==
    <<agent.instructions>>
    \o (IF Truthy(instruction) THEN <<"\n\n">> \o instruction.v ELSE <<>>)
    \o (IF document_context # Dict(<<>>) /\ "content" \in DOMAIN document_context.d
        THEN <<"\n\nDocument content:\n">> \o FString(document_context.d["content"])
        ELSE <<>>)

\* generate(): formatted_messages
GenerateFormattedMessages(system_instruction, messages) ==
    <<[role |-> "system", content |-> Str(system_instruction)]>>
    \o [i \in DOMAIN messages |->
          [role |-> messages[i].role, content |-> messages[i].content]]

\* generate(): the steps between mode validation and the model call, as
\* Prepared gives them for process_agent_message.
GeneratePrepared(request, context, got, agents, cache, count) ==
    IF IsExc(context.ret)
    THEN [stop |-> "exception", exception |-> context.ret,
          backend_calls |-> context.calls, get_agent_calls |-> 0,
          document_context |-> None, agent |-> None, formatted_messages |-> <<>>,
          agents |-> agents, lru |-> cache, count |-> count]
    ELSE IF got.ret = None
    THEN [stop |-> "no agent", exception |-> None,
          backend_calls |-> context.calls, get_agent_calls |-> 1,
          document_context |-> context.ret, agent |-> None,
          formatted_messages |-> <<>>,
          agents |-> got.agents, lru |-> got.lru, count |-> got.count]
    ELSE [stop |-> "", exception |-> None,
          backend_calls |-> context.calls, get_agent_calls |-> 1,
          document_context |-> context.ret, agent |-> got.ret,
          formatted_messages |->
              GenerateFormattedMessages(
                  GenerateSystemInstruction(got.ret, request.instruction, context.ret),
                  request.messages),
          agents |-> got.agents, lru |-> got.lru, count |-> got.count]

GeneratePrepare(request, world, agents, cache, count) ==
    GeneratePrepared(request,
                     IF Truthy(request.document_id)
                     THEN get_document_context(request.document_id.v, world.bucket, world.s3)
                     ELSE [ret |-> Dict(<<>>), calls |-> <<>>, s3 |-> None, db |-> None],
                     GetAgent(agents, cache, count, request.mode, world.raises),
                     agents, cache, count)

ChunkFrames(message_id, chunks) ==
    [i \in DOMAIN chunks |->
        [id |-> message_id, role |-> "assistant", content |-> chunks[i],
         is_complete |-> FALSE]]

\* Mutant of FinalFrame: the last frame is not flagged as complete.
FinalFrameIncomplete(message_id, document_context) ==
    [id |-> message_id, role |-> "assistant", content |-> Str(<<>>),
     is_complete |-> FALSE, document |-> DocumentOf(document_context)]

\* Mutant of FinalFrame: the metadata is left off the last frame.
FinalFrameNoDocument(message_id, document_context) ==
    [id |-> message_id, role |-> "assistant", content |-> Str(<<>>),
     is_complete |-> TRUE, document |-> None]

\* Mutant of FinalFrame: the id is taken again when the last frame is built.
FinalFrameFreshId(message_id, document_context) ==
    [id |-> Str(message_id.v \o <<"+1">>), role |-> "assistant", content |-> Str(<<>>),
     is_complete |-> TRUE, document |-> DocumentOf(document_context)]

FinalFrame(message_id, document_context) ==
    [id |-> message_id, role |-> "assistant", content |-> Str(<<>>),
     is_complete |-> TRUE, document |-> DocumentOf(document_context)]

\* Mutant of GenerateValidated: the completion frame is sent from a finally
\* clause, after the error frame too.
GenerateValidatedAlwaysFinal(request, world, p) ==
    IF p.stop = "exception"
    THEN Streamed(<<ErrorFrame(Str(<<"str(HTTPException)", p.exception.status_code>>))>>,
                  p.backend_calls, p.get_agent_calls, <<>>, p.agents, p.lru, p.count)
    ELSE IF p.stop = "no agent"
    THEN Streamed(<<ErrorFrame(Str(<<"Failed to initialize agent for mode: ",
                                     request.mode>>))>>,
                  p.backend_calls, p.get_agent_calls, <<>>, p.agents, p.lru, p.count)
    ELSE Streamed(ChunkFrames(world.now, world.run.chunks)
                  \o (IF world.run.raises
                      THEN <<ErrorFrame(Text("model call failed"))>>
                      ELSE <<>>)
                  \o <<FinalFrame(world.now, p.document_context)>>,
                  p.backend_calls, p.get_agent_calls, <<p.formatted_messages>>,
                  p.agents, p.lru, p.count)

\* The concatenation of the content of chunks 1..n.
RECURSIVE Joined(_, _)
Joined(chunks, n) == IF n = 0 THEN <<>> ELSE Joined(chunks, n - 1) \o chunks[n].v

\* Mutant of GenerateValidated: the completion frame repeats the content
\* accumulated from the chunks.
GenerateValidatedAccumulating(request, world, p) ==
    IF p.stop = "exception"
    THEN Streamed(<<ErrorFrame(Str(<<"str(HTTPException)", p.exception.status_code>>))>>,
                  p.backend_calls, p.get_agent_calls, <<>>, p.agents, p.lru, p.count)
    ELSE IF p.stop = "no agent"
    THEN Streamed(<<ErrorFrame(Str(<<"Failed to initialize agent for mode: ",
                                     request.mode>>))>>,
                  p.backend_calls, p.get_agent_calls, <<>>, p.agents, p.lru, p.count)
    ELSE Streamed(ChunkFrames(world.now, world.run.chunks)
                  \o (IF world.run.raises
                      THEN <<ErrorFrame(Text("model call failed"))>>
                      ELSE <<[id |-> world.now, role |-> "assistant",
                              content |-> Str(Joined(world.run.chunks,
                                                     Len(world.run.chunks))),
                              is_complete |-> TRUE,
                              document |-> DocumentOf(p.document_context)]>>),
                  p.backend_calls, p.get_agent_calls, <<p.formatted_messages>>,
                  p.agents, p.lru, p.count)

\* Mutant of GenerateValidated: HTTPException is re-raised, as in
\* process_agent_message, so the generator ends without a frame.
GenerateValidatedReraises(request, world, p) ==
    IF p.stop = "exception"
    THEN Streamed(<<>>, p.backend_calls, p.get_agent_calls, <<>>, p.agents, p.lru, p.count)
    ELSE IF p.stop = "no agent"
    THEN Streamed(<<ErrorFrame(Str(<<"Failed to initialize agent for mode: ",
                                     request.mode>>))>>,
                  p.backend_calls, p.get_agent_calls, <<>>, p.agents, p.lru, p.count)
    ELSE Streamed(ChunkFrames(world.now, world.run.chunks)
                  \o (IF world.run.raises
                      THEN <<ErrorFrame(Text("model call failed"))>>
                      ELSE <<FinalFrame(world.now, p.document_context)>>),
                  p.backend_calls, p.get_agent_calls, <<p.formatted_messages>>,
                  p.agents, p.lru, p.count)

\* generate() once the mode has passed validation; p is what Prepare did.
GenerateValidated(request, world, p) ==
    IF p.stop = "exception"
    THEN \* except Exception: str(e)
         Streamed(<<ErrorFrame(Str(<<"str(HTTPException)", p.exception.status_code>>))>>,
                  p.backend_calls, p.get_agent_calls, <<>>, p.agents, p.lru, p.count)
    ELSE IF p.stop = "no agent"
    THEN Streamed(<<ErrorFrame(Str(<<"Failed to initialize agent for mode: ",
                                     request.mode>>))>>,
                  p.backend_calls, p.get_agent_calls, <<>>, p.agents, p.lru, p.count)
    ELSE Streamed(ChunkFrames(world.now, world.run.chunks)
                  \o (IF world.run.raises
                      THEN <<ErrorFrame(Text("model call failed"))>>
                      ELSE <<FinalFrame(world.now, p.document_context)>>),
                  p.backend_calls, p.get_agent_calls, <<p.formatted_messages>>,
                  p.agents, p.lru, p.count)

\* POST /api/agent/message/stream: the frames generate() yields.
Generate(request, world, agents, cache, count) ==
    IF request.mode \notin ValidModes
    THEN Streamed(<<ErrorFrame(InvalidModeDetail(request.mode))>>, <<>>, 0, <<>>,
                  agents, cache, count)
    ELSE GenerateValidated(request, world,
                           GeneratePrepare(request, world, agents, cache, count))

(***************************************************************************)
(* The inputs of the document layer: keys, object bodies and what          *)
(* s3_client.get_object does.                                              *)
(***************************************************************************)
key_pdf  == <<"d", "o", "c", "s", "/", "a", ".", "p", "d", "f">>
key_PDF  == <<"A", ".", "P", "D", "F">>
key_docx == <<"a", ".", "d", "o", "c", "x">>
key_txt  == <<"d", "/", "e", "/", "a", ".", "t", "x", "t">>
key_json == <<"a", ".", "j", "s", "o", "n">>
key_bin  == <<"a", ".", "b", "i", "n">>
key_dir  == <<"d", "/">>

S3Keys == {key_pdf, key_PDF, key_docx, key_txt, key_json, key_bin, key_dir,
           test_document}

Bytes(name, utf8, json, pdf, docx) ==
    [t |-> "bytes", name |-> name, utf8 |-> utf8, json |-> json, pdf |-> pdf,
     docx |-> docx]

Bodies ==
    { Bytes("pdf", None, None, [pages |-> <<"page one", "page two">>], None),
      Bytes("pdf without pages", None, None, [pages |-> <<>>], None),
      Bytes("docx", None, None, None,
            [paragraphs |-> <<"first", "second">>, tables |-> <<"a | b">>]),
      Bytes("text", Text("plain words"), None, None, None),
      Bytes("empty", Str(<<>>), None, None, None),
      Bytes("json with content", Text("{\"content\": \"inner text\"}"),
            Dict([content |-> Text("inner text")]), None, None),
      Bytes("json with empty content", Text("{\"content\": \"\"}"),
            Dict([content |-> Str(<<>>)]), None, None),
      Bytes("json with null content", Text("{\"content\": null}"),
            Dict([content |-> None]), None, None),
      Bytes("json without content", Text("{\"title\": \"x\"}"),
            Dict([title |-> Text("x")]), None, None),
      Bytes("json list", Text("[]"), [t |-> "list", v |-> <<>>], None, None),
      Bytes("not utf-8", None, None, None, None) }

ContentTypes ==
    {None, PDF_TYPE, DOCX_TYPE, TEXT_TYPE, JSON_TYPE, Text("image/png")}

\* What get_object does: raise (a ClientError such as NoSuchKey, or another
\* botocore error), or return a response whose Body.read() gives the bytes or
\* raises.
S3Responses ==
    [ContentType : ContentTypes,
     Body : Bodies \cup {Exc("ReadTimeoutError")},
     ContentLength : {None, PyInt(42)},
     LastModified : {None, [t |-> "datetime", isoformat |-> "2024-05-01T10:00:00+00:00"]}]

S3Outcomes ==
    {[raises |-> Exc(k), response |-> None] : k \in {"ClientError", "EndpointConnectionError"}}
    \cup {[raises |-> None, response |-> r] : r \in S3Responses}

Buckets == {None, Text(""), Text("documents")}

(***************************************************************************)
(* The document layer driven directly.                                     *)
(***************************************************************************)
\* One call per behaviour: the calls share no state, so a behaviour is one
\* call on one input.
S3Call(bucket, s3_key, s3) ==
    /\ s3call' = [bucket |-> bucket, s3_key |-> s3_key, s3 |-> s3,
                  ret |-> get_document_from_s3(bucket, s3_key, s3)]
    /\ UNCHANGED <<_agents, lru, call_count, log, ctxcall, reply>>

ContextCall(bucket, document_id, s3) ==
    /\ ctxcall' = [bucket |-> bucket, document_id |-> document_id, s3 |-> s3,
                   out |-> get_document_context(document_id, bucket, s3)]
    /\ UNCHANGED <<_agents, lru, call_count, log, s3call, reply>>

S3CallAny ==
    /\ s3call = None /\ ctxcall = None
    /\ \E bucket \in Buckets, s3_key \in S3Keys, s3 \in S3Outcomes :
          S3Call(bucket, s3_key, s3)

ContextCallAny ==
    /\ s3call = None /\ ctxcall = None
    /\ \E bucket \in Buckets, document_id \in S3Keys \cup {<<>>}, s3 \in S3Outcomes :
          ContextCall(bucket, document_id, s3)

(***************************************************************************)
(* The registry driven directly (as the unit tests drive it).              *)
(***************************************************************************)
Looked(mode, raises, r) ==
    /\ _agents' = r.agents
    /\ lru' = r.lru
    /\ call_count' = r.count
    /\ log' = Append(log, [op |-> "get_agent", mode |-> mode, ret |-> r.ret,
                           ran |-> r.ran, raised |-> raises /\ r.ran > 0,
                           agentsBefore |-> _agents, agentsAfter |-> r.agents,
                           keysBefore |-> Keys(lru)])
    /\ UNCHANGED <<s3call, ctxcall, reply>>

get_agent(mode, raises) ==
    /\ Len(log) < MaxCalls
    /\ Looked(mode, raises, GetAgent(_agents, lru, call_count, mode, raises))

reset_agents ==
    /\ Len(log) < MaxCalls
    /\ _agents' = ResetAgents(_agents)
    /\ log' = Append(log, [op |-> "reset_agents", mode |-> "", ret |-> None,
                           ran |-> 0, raised |-> FALSE,
                           agentsBefore |-> _agents, agentsAfter |-> <<>>,
                           keysBefore |-> Keys(lru)])
    /\ UNCHANGED <<lru, call_count, s3call, ctxcall, reply>>

(***************************************************************************)
(* The inputs of the endpoints.                                            *)
(***************************************************************************)
RequestModes == ValidModes \cup {"bogus"}

Message(role, content) == [role |-> role, content |-> content, id |-> None]

MessageLists ==
    { <<>>,
      <<Message("user", Text("Fix grammar"))>>,
      <<Message("user", Text("Fix grammar")), Message("assistant", Text("Done."))>> }

Instructions == {None, Text("Be brief.")}

TextObject(body) ==
    [raises |-> None,
     response |-> [ContentType |-> TEXT_TYPE, Body |-> body,
                   ContentLength |-> PyInt(IF body.utf8 = Str(<<>>) THEN 0 ELSE 42),
                   LastModified |-> None]]

JsonObject(body) ==
    [raises |-> None,
     response |-> [ContentType |-> JSON_TYPE, Body |-> body,
                   ContentLength |-> PyInt(42), LastModified |-> None]]

NoSuchKey == [raises |-> Exc("ClientError"), response |-> None]

\* The documents a request may name, with what S3 does for each: no
\* document; a text object; an empty text object; a JSON object whose content
\* is null; the database's sample document; a key no backend knows.
Documents ==
    { [document_id |-> None, s3 |-> NoSuchKey],
      [document_id |-> Str(<<>>), s3 |-> NoSuchKey],
      [document_id |-> Str(key_txt),
       s3 |-> TextObject(Bytes("text", Text("plain words"), None, None, None))],
      [document_id |-> Str(key_txt),
       s3 |-> TextObject(Bytes("empty", Str(<<>>), None, None, None))],
      [document_id |-> Str(key_json),
       s3 |-> JsonObject(Bytes("json with null content", Text("{\"content\": null}"),
                               Dict([content |-> None]), None, None))],
      [document_id |-> Str(test_document), s3 |-> NoSuchKey],
      [document_id |-> Str(key_bin), s3 |-> NoSuchKey] }

Requests ==
    {[mode |-> m, document_id |-> d.document_id, instruction |-> i, messages |-> ms] :
        m \in RequestModes, d \in Documents, i \in Instructions, ms \in MessageLists}

\* agent.run: returns a response or raises.
Runs ==
    {[raises |-> r, content |-> Text("Corrected text."), chunks |-> <<>>] : r \in BOOLEAN}

ChunkLists ==
    { <<>>, <<Text("Corrected")>>, <<Text("Corrected"), Text(" "), Text("text.")>> }

\* agent.run_stream: yields the chunks, then ends or raises.
StreamRuns ==
    {[raises |-> r, content |-> None, chunks |-> c] : r \in BOOLEAN, c \in ChunkLists}

World(d, raises, run) ==
    [bucket |-> Text("documents"), s3 |-> d.s3, raises |-> raises, run |-> run,
     now |-> Text("1700000000000")]

(***************************************************************************)
(* The endpoints serving a request.                                        *)
(***************************************************************************)
Serve(endpoint, request, world, r) ==
    /\ _agents' = r.agents
    /\ lru' = r.lru
    /\ call_count' = r.count
    /\ reply' = [endpoint |-> endpoint, request |-> request,
                 bucket |-> world.bucket, s3 |-> world.s3,
                 raises |-> world.raises, run |-> world.run, now |-> world.now,
                 status_code |-> r.status_code, detail |-> r.detail, body |-> r.body,
                 frames |-> r.frames, backend_calls |-> r.backend_calls,
                 get_agent_calls |-> r.get_agent_calls, model_calls |-> r.model_calls,
                 constructed |-> r.count - call_count, waiting |-> ""]
    /\ UNCHANGED <<log, s3call, ctxcall>>

RequestOf(m, d, i, ms) ==
    [mode |-> m, document_id |-> d.document_id, instruction |-> i, messages |-> ms]

\* One request per behaviour, after the registry calls that precede it.
process_agent_message ==
    /\ reply = None
    /\ \E m \in RequestModes, d \in Documents, i \in Instructions, ms \in MessageLists,
          raises \in BOOLEAN, run \in Runs :
          Serve("/message", RequestOf(m, d, i, ms), World(d, raises, run),
                ProcessAgentMessage(RequestOf(m, d, i, ms), World(d, raises, run),
                                    _agents, lru, call_count))

stream_agent_message ==
    /\ reply = None
    /\ \E m \in RequestModes, d \in Documents, i \in Instructions, ms \in MessageLists,
          raises \in BOOLEAN, run \in StreamRuns :
          Serve("/message/stream", RequestOf(m, d, i, ms), World(d, raises, run),
                Generate(RequestOf(m, d, i, ms), World(d, raises, run),
                         _agents, lru, call_count))

\* The calls a handler waits on: s3_client.get_object (a blocking call) and
\* the model call (await agent.run, async for ... in agent.run_stream).
\* Neither is given a timeout, and no handler wraps them in one.
HangPoints == {"get_object", "agent.run"}

\* The request gets as far as s3_client.get_object.
ReachesGetObject(request, world) ==
    /\ request.mode \in ValidModes
    /\ Truthy(request.document_id)
    /\ world.bucket # None /\ world.bucket # Text("")

\* A request one of whose calls (`where`) never returns; r is what the
\* handler does when every call returns.  The handler stays at the call: `waiting`
\* names it, status_code 0 says that no response has been started, and on
\* /message/stream the frames are those sent before the wait.  A request
\* that does not reach the call is served as usual.
Wait(endpoint, request, world, where, r) ==
    IF where = "get_object" /\ ReachesGetObject(request, world)
    THEN /\ reply' = [endpoint |-> endpoint, request |-> request,
                      bucket |-> world.bucket, s3 |-> world.s3,
                      raises |-> world.raises, run |-> world.run, now |-> world.now,
                      status_code |-> IF endpoint = "/message" THEN 0 ELSE 200,
                      detail |-> None, body |-> None, frames |-> <<>>,
                      backend_calls |-> <<"s3">>, get_agent_calls |-> 0,
                      model_calls |-> <<>>, constructed |-> 0,
                      waiting |-> "get_object"]
         /\ UNCHANGED <<_agents, lru, call_count, log, s3call, ctxcall>>
    ELSE IF where = "agent.run" /\ r.model_calls # <<>>
    THEN /\ _agents' = r.agents
         /\ lru' = r.lru
         /\ call_count' = r.count
         /\ reply' = [endpoint |-> endpoint, request |-> request,
                      bucket |-> world.bucket, s3 |-> world.s3,
                      raises |-> world.raises, run |-> world.run, now |-> world.now,
                      status_code |-> IF endpoint = "/message" THEN 0 ELSE 200,
                      detail |-> None, body |-> None,
                      frames |-> IF endpoint = "/message" THEN <<>>
                                 ELSE ChunkFrames(world.now, world.run.chunks),
                      backend_calls |-> r.backend_calls,
                      get_agent_calls |-> r.get_agent_calls,
                      model_calls |-> r.model_calls,
                      constructed |-> r.count - call_count,
                      waiting |-> "agent.run"]
         /\ UNCHANGED <<log, s3call, ctxcall>>
    ELSE Serve(endpoint, request, world, r)

process_agent_message_waits ==
    /\ reply = None
    /\ \E m \in RequestModes, d \in Documents, i \in Instructions, ms \in MessageLists,
          raises \in BOOLEAN, run \in Runs, where \in HangPoints :
          Wait("/message", RequestOf(m, d, i, ms), World(d, raises, run), where,
               ProcessAgentMessage(RequestOf(m, d, i, ms), World(d, raises, run),
                                   _agents, lru, call_count))

stream_agent_message_waits ==
    /\ reply = None
    /\ \E m \in RequestModes, d \in Documents, i \in Instructions, ms \in MessageLists,
          raises \in BOOLEAN, run \in StreamRuns, where \in HangPoints :
          Wait("/message/stream", RequestOf(m, d, i, ms), World(d, raises, run), where,
               Generate(RequestOf(m, d, i, ms), World(d, raises, run),
                        _agents, lru, call_count))

\* One request given to both endpoints from the same registry state and with
\* the same backends: what each endpoint hands the model.
Compare(request, world, sync, stream) ==
    /\ reply' = [endpoint |-> "both", request |-> request,
                 bucket |-> world.bucket, s3 |-> world.s3, raises |-> world.raises,
                 sync_calls |-> sync.model_calls, stream_calls |-> stream.model_calls,
                 sync_backend_calls |-> sync.backend_calls,
                 stream_backend_calls |-> stream.backend_calls]
    /\ UNCHANGED <<_agents, lru, call_count, log, s3call, ctxcall>>

both_endpoints ==
    /\ reply = None
    /\ \E m \in RequestModes, d \in Documents, i \in Instructions, ms \in MessageLists,
          raises \in BOOLEAN :
          Compare(RequestOf(m, d, i, ms), World(d, raises, None),
                  ProcessAgentMessage(RequestOf(m, d, i, ms),
                                      World(d, raises, [raises |-> FALSE,
                                                        content |-> Text("Corrected text."),
                                                        chunks |-> <<>>]),
                                      _agents, lru, call_count),
                  Generate(RequestOf(m, d, i, ms),
                           World(d, raises, [raises |-> FALSE, content |-> None,
                                             chunks |-> <<Text("Corrected"), Text(" text.")>>]),
                           _agents, lru, call_count))

\* The registry calls made before the request (by earlier requests, or by
\* other callers of AgentFactory).
EarlierGetAgent ==
    /\ reply = None
    /\ Len(log) < MaxEarlier
    /\ \E mode \in RequestModes, raises \in BOOLEAN : get_agent(mode, raises)

EarlierResetAgents ==
    /\ reply = None
    /\ Len(log) < MaxEarlier
    /\ reset_agents

InitRegistry ==
    /\ _agents = <<>>
    /\ lru = <<>>
    /\ call_count = 0
    /\ log = <<>>

Init ==
    /\ InitRegistry
    /\ s3call = None
    /\ ctxcall = None
    /\ reply = None

NextRegistry ==
    \/ \E mode \in Modes, raises \in BOOLEAN : get_agent(mode, raises)
    \/ reset_agents

SpecRegistry == Init /\ [][NextRegistry]_vars

\* Requests one of whose calls never returns.  Every step that is enabled is
\* eventually taken: the event loop runs whatever can run.
NextWaits == process_agent_message_waits \/ stream_agent_message_waits

SpecWaits == Init /\ [][NextWaits]_vars /\ WF_vars(NextWaits)

NextBoth == EarlierGetAgent \/ EarlierResetAgents \/ both_endpoints

SpecBoth == Init /\ [][NextBoth]_vars

NextDocument == S3CallAny \/ ContextCallAny

SpecDocument == Init /\ [][NextDocument]_vars

NextRouter ==
    \/ EarlierGetAgent
    \/ EarlierResetAgents
    \/ process_agent_message
    \/ stream_agent_message

SpecRouter == Init /\ [][NextRouter]_vars

(***************************************************************************)
(* Claims about the registry (checked under SpecRegistry).                 *)
(***************************************************************************)
IsGet(i) == i \in DOMAIN log /\ log[i].op = "get_agent"
IsReset(i) == i \in DOMAIN log /\ log[i].op = "reset_agents"

\* Calls i and i+1 are get_agent(m) for one recognised mode m, and before
\* call i the registry held nothing for m (neither in _agents nor in the
\* lru_cache): the case of an empty registry, for m.
TwoLookupsFromEmpty(i) ==
    /\ IsGet(i) /\ IsGet(i + 1)
    /\ log[i].mode \in ValidModes
    /\ log[i + 1].mode = log[i].mode
    /\ log[i].mode \notin DOMAIN log[i].agentsBefore
    /\ log[i].mode \notin log[i].keysBefore

\* C1: starting from a registry that holds nothing for a mode in {analyze,
\* edit, create}, two consecutive get_agent(mode) calls return the identical
\* instance and the Agent constructor is called exactly once across the two
\* calls; when that constructor call does not raise, the instance is the
\* agent built by it.
C1_TwoLookupsOneConstruction ==
    \A i \in DOMAIN log :
        TwoLookupsFromEmpty(i) =>
            /\ log[i].ret = log[i + 1].ret
            /\ log[i].ran + log[i + 1].ran = 1
            /\ (~log[i].raised =>
                    /\ log[i].ret.t = "Agent"
                    /\ log[i].ret = log[i].agentsAfter[log[i].mode])

C1_Witness ==
    \E i \in DOMAIN log :
        /\ TwoLookupsFromEmpty(i)
        /\ log[i + 1].ret.t = "Agent"
        /\ log[i].keysBefore # {}

\* C2 (as claimed): reset_agents() followed by get_agent(mode), for a mode in
\* {analyze, edit, create}, calls the Agent constructor exactly once more,
\* also when the mode had been looked up before the reset.
C2_ResetThenLookupConstructs ==
    \A i \in DOMAIN log :
        (IsReset(i) /\ IsGet(i + 1) /\ log[i + 1].mode \in ValidModes)
            => log[i + 1].ran = 1

\* C3: get_agent(mode) for a mode outside {analyze, edit, create} returns
\* None, calls no constructor and leaves _agents as it was.
C3_InvalidModeNoEffect ==
    \A i \in DOMAIN log :
        (IsGet(i) /\ log[i].mode \notin ValidModes) =>
            /\ log[i].ret = None
            /\ log[i].ran = 0
            /\ log[i].agentsAfter = log[i].agentsBefore

C3_Witness ==
    \E i \in DOMAIN log :
        /\ IsGet(i) /\ log[i].mode \notin ValidModes
        /\ log[i].agentsBefore # <<>>
        /\ log[i].mode \notin log[i].keysBefore
        /\ log[i].ret = None

(***************************************************************************)
(* Claims about the document layer (checked under SpecDocument).           *)
(***************************************************************************)
Configured(call) == call # None /\ call.bucket = Text("documents")

\* get_object returned and Body.read() gave the bytes.
Fetched(call) ==
    /\ Configured(call)
    /\ call.s3.raises = None
    /\ call.s3.response.Body.t = "bytes"

DeclaredType(call) ==
    IF call.s3.response.ContentType = None THEN Text("")
    ELSE call.s3.response.ContentType

\* The format each content type names, and the format the suffix of each
\* key of S3Keys names ("other": none).
TypeFormat(content_type) ==
    CASE content_type = Text("application/pdf") -> "pdf"
      [] content_type = Text("application/vnd.openxmlformats-officedocument.wordprocessingml.document") -> "docx"
      [] content_type = Text("text/plain") -> "txt"
      [] content_type = Text("application/json") -> "json"
      [] OTHER -> "other"

SuffixFormat(key) ==
    CASE key = key_pdf  -> "pdf"
      [] key = key_PDF  -> "pdf"
      [] key = key_docx -> "docx"
      [] key = key_txt  -> "txt"
      [] key = key_json -> "json"
      [] OTHER -> "other"

\* What get_document_from_s3 returns when the body is extracted as `format`.
ExtractedAs(call, format) ==
    LET text == ExtractAs(format, call.s3.response.Body) IN
    IF text = EarlyReturn \/ IsExc(text)
    THEN call.ret = Ret(None, None)
    ELSE call.ret.t = "return" /\ call.ret.content = text /\ call.ret.metadata # None

\* C7: get_document_from_s3 propagates no exception: it always returns, and
\* it returns (None, None) whenever get_object raises, Body.read() raises,
\* the bytes of a text or JSON object are not UTF-8, or the text of a JSON
\* object does not parse.
C7_S3NeverRaises ==
    s3call # None =>
        /\ s3call.ret.t = "return"
        /\ (Configured(s3call) /\ s3call.s3.raises # None) => s3call.ret = Ret(None, None)
        /\ (Configured(s3call) /\ s3call.s3.raises = None
              /\ s3call.s3.response.Body.t = "exception") => s3call.ret = Ret(None, None)
        /\ (Fetched(s3call)
              /\ TypeFormat(DeclaredType(s3call)) \in {"txt", "json"}
              /\ SuffixFormat(s3call.s3_key) \in {"txt", "json", "other"}
              /\ s3call.s3.response.Body.utf8 = None) => s3call.ret = Ret(None, None)
        /\ (Fetched(s3call)
              /\ TypeFormat(DeclaredType(s3call)) = "json"
              /\ SuffixFormat(s3call.s3_key) \in {"json", "other"}
              /\ s3call.s3.response.Body.json = None) => s3call.ret = Ret(None, None)

C7_Witness ==
    /\ Fetched(s3call)
    /\ DeclaredType(s3call) = Text("application/json")
    /\ s3call.s3_key = key_json
    /\ s3call.s3.response.Body.utf8 # None
    /\ s3call.s3.response.Body.json = None
    /\ s3call.ret = Ret(None, None)

\* C8 (as claimed): a recognised content type decides the extraction format,
\* whatever the suffix of the key; the suffix decides only when the content
\* type is absent or unrecognised.
C8_ContentTypeFirst ==
    Fetched(s3call) =>
        ExtractedAs(s3call,
                    IF TypeFormat(DeclaredType(s3call)) # "other"
                    THEN TypeFormat(DeclaredType(s3call))
                    ELSE SuffixFormat(s3call.s3_key))

FormatOrder == <<"pdf", "docx", "txt", "json">>

\* The first format of FormatOrder that the content type or the suffix names.
FirstNamed(content_type, key) ==
    LET named == {i \in DOMAIN FormatOrder :
                    \/ TypeFormat(content_type) = FormatOrder[i]
                    \/ SuffixFormat(key) = FormatOrder[i]}
    IN IF named = {} THEN "other"
       ELSE FormatOrder[CHOOSE i \in named : \A j \in named : i <= j]

\* C8 (amended): the extraction format is the first of PDF, DOCX, plain text,
\* JSON that the declared content type or the lower-cased suffix of the key
\* names.  So the content type's format F prevails over the suffix's format G
\* only when F comes before G in that order, and the suffix decides alone
\* when the content type is absent or unrecognised.
C8_FirstNamedFormat ==
    Fetched(s3call) =>
        ExtractedAs(s3call, FirstNamed(DeclaredType(s3call), s3call.s3_key))

\* A text/plain object under a .pdf key, extracted as PDF.
C8_Witness ==
    /\ Fetched(s3call)
    /\ DeclaredType(s3call) = Text("text/plain")
    /\ s3call.s3_key = key_pdf
    /\ s3call.s3.response.Body.name = "pdf"
    /\ s3call.ret.content = Str(<<"page one", "\n\n", "page two", "\n\n">>)

\* C9: with no declared content type the suffix of the key decides: a .pdf
\* key is extracted as PDF, a .txt key returns the bytes decoded as text, a
\* .json key whose object has a content field returns that field's value,
\* and a key with no recognised suffix whose bytes are not UTF-8 returns
\* (None, None).
C9_SuffixDispatch ==
    (Fetched(s3call) /\ s3call.s3.response.ContentType = None) =>
        LET body == s3call.s3.response.Body IN
        /\ s3call.s3_key = key_pdf =>
              /\ s3call.ret.content = extract_text_from_pdf(body)
              /\ s3call.ret.metadata # None
        /\ (s3call.s3_key = key_txt /\ body.utf8 # None) =>
              s3call.ret.content = body.utf8
        /\ (s3call.s3_key = key_json /\ body.json # None /\ body.json.t = "dict"
              /\ "content" \in DOMAIN body.json.d) =>
              s3call.ret.content = body.json.d.content
        /\ (s3call.s3_key \in {key_bin, key_dir, test_document} /\ body.utf8 = None) =>
              s3call.ret = Ret(None, None)

C9_Witness ==
    /\ Fetched(s3call) /\ s3call.s3.response.ContentType = None
    /\ s3call.s3_key = key_json
    /\ s3call.s3.response.Body.name = "json with content"
    /\ s3call.ret.content = Text("inner text")

(***************************************************************************)
(* Claims about get_document_context (checked under SpecDocument).         *)
(***************************************************************************)
Resolving == ctxcall # None /\ ctxcall.document_id # <<>>
Resolved == Resolving /\ ctxcall.out.ret.t = "dict"
NotFound == Resolving /\ ctxcall.out.ret = HTTPException(404)

\* C5: get_document_context asks S3 first and the database second, and the
\* first backend with non-null content wins: when S3 returns content the
\* database is not called and the S3 content and metadata are returned; when
\* S3 returns null content the database is called next and, when it has
\* content, its content and metadata are returned.
C5_S3ThenDatabase ==
    Resolving =>
        /\ ctxcall.out.calls # <<>> /\ ctxcall.out.calls[1] = "s3"
        /\ ctxcall.out.s3.content # None =>
              /\ ctxcall.out.calls = <<"s3">>
              /\ ctxcall.out.ret.t = "dict"
              /\ ctxcall.out.ret.d.content = ctxcall.out.s3.content
              /\ ctxcall.out.ret.d.metadata = ctxcall.out.s3.metadata
        /\ ctxcall.out.s3.content = None =>
              /\ ctxcall.out.calls = <<"s3", "db">>
              /\ ctxcall.out.db.content # None =>
                    /\ ctxcall.out.ret.t = "dict"
                    /\ ctxcall.out.ret.d.content = ctxcall.out.db.content
                    /\ ctxcall.out.ret.d.metadata = ctxcall.out.db.metadata

\* The document only the database resolves.
C5_Witness ==
    /\ Resolved
    /\ ctxcall.out.s3 = Ret(None, None)
    /\ ctxcall.out.calls = <<"s3", "db">>
    /\ ctxcall.out.ret.d.metadata = ctxcall.out.db.metadata
    /\ "id" \in DOMAIN ctxcall.out.ret.d.metadata.d

\* C6: get_document_context raises the 404 exactly when both backends
\* returned null content; a backend that returns the empty str has resolved
\* the document: the empty content is returned and no later backend is called.
C6_NotFoundIffBothNull ==
    Resolving =>
        /\ NotFound <=> /\ ctxcall.out.calls = <<"s3", "db">>
                        /\ ctxcall.out.s3.content = None
                        /\ ctxcall.out.db.content = None
        /\ NotFound \/ Resolved
        /\ ctxcall.out.s3.content = Str(<<>>) =>
              /\ Resolved
              /\ ctxcall.out.ret.d.content = Str(<<>>)
              /\ ctxcall.out.calls = <<"s3">>

C6_Witness ==
    /\ Resolved
    /\ ctxcall.document_id = test_document
    /\ ctxcall.out.s3.content = Str(<<>>)
    /\ ctxcall.out.ret.d.content = Str(<<>>)
    /\ ctxcall.out.calls = <<"s3">>

MetadataKeys == {"content_type", "size", "last_modified", "s3_key", "filename"}

\* The final path segment of each key of S3Keys.
FinalSegment(key) ==
    CASE key = key_pdf -> <<"a", ".", "p", "d", "f">>
      [] key = key_txt -> <<"a", ".", "t", "x", "t">>
      [] key = key_dir -> <<>>
      [] OTHER -> key

\* C10 (as claimed): every successful resolution, from either backend,
\* carries metadata with the content type, the size, the last-modified time,
\* the storage key and the filename, the filename being the final path
\* segment of the key.
C10_MetadataFromEveryBackend ==
    Resolved =>
        /\ MetadataKeys \subseteq DOMAIN ctxcall.out.ret.d.metadata.d
        /\ ctxcall.out.ret.d.metadata.d["filename"] = Str(FinalSegment(ctxcall.document_id))

\* C10 (amended): every successful resolution produced by the S3 backend
\* carries metadata with the content type, the size, the last-modified time
\* (None when S3 gave none), the storage key and the filename, the filename
\* being the final path segment of the key; a resolution produced by the
\* database placeholder carries id, name and type instead.
C10_MetadataFromS3 ==
    Resolved =>
        LET metadata == ctxcall.out.ret.d.metadata.d
            response == ctxcall.s3.response
        IN /\ ctxcall.out.calls = <<"s3">> =>
                /\ DOMAIN metadata = MetadataKeys
                /\ metadata["content_type"] =
                      (IF response.ContentType = None THEN Str(<<>>) ELSE response.ContentType)
                /\ metadata["size"] =
                      (IF response.ContentLength = None THEN PyInt(0) ELSE response.ContentLength)
                /\ metadata["last_modified"] =
                      (IF response.LastModified = None THEN None
                       ELSE Text(response.LastModified.isoformat))
                /\ metadata["s3_key"] = Str(ctxcall.document_id)
                /\ metadata["filename"] = Str(FinalSegment(ctxcall.document_id))
           /\ ctxcall.out.calls = <<"s3", "db">> =>
                /\ DOMAIN metadata = {"id", "name", "type"}
                /\ metadata["id"] = Str(ctxcall.document_id)

C10_Witness ==
    /\ Resolved
    /\ ctxcall.out.calls = <<"s3">>
    /\ ctxcall.document_id = key_txt
    /\ ctxcall.out.ret.d.metadata.d["filename"] = Str(<<"a", ".", "t", "x", "t">>)
    /\ ctxcall.out.ret.d.metadata.d["last_modified"] = None

(***************************************************************************)
(* Claims about the endpoints (checked under SpecRouter).                  *)
(***************************************************************************)
Served == reply # None

InvalidModeError(r) ==
    IF r.endpoint = "/message"
    THEN r.status_code = 400 /\ r.detail = InvalidModeDetail(r.request.mode)
    ELSE r.frames = <<ErrorFrame(InvalidModeDetail(r.request.mode))>>

\* C4: on /message and on /message/stream a request whose mode is outside
\* {analyze, edit, create} is rejected (HTTP 400 on /message, a single error
\* frame on /message/stream) with no document backend call and no
\* AgentFactory.get_agent call made for it; nothing is constructed, the
\* model is not called and the registry is left as it was.
C4_InvalidModeRejectedFirst ==
    (Served /\ reply.request.mode \notin ValidModes) =>
        /\ InvalidModeError(reply)
        /\ reply.backend_calls = <<>>
        /\ reply.get_agent_calls = 0
        /\ reply.constructed = 0
        /\ reply.model_calls = <<>>
        /\ reply.body = None

\* An invalid-mode request naming a document S3 holds and a mode the
\* registry could otherwise be asked for, served on the streaming endpoint
\* after an earlier lookup has populated the registry.
C4_Witness ==
    /\ Served
    /\ reply.endpoint = "/message/stream"
    /\ reply.request.mode = "bogus"
    /\ reply.request.document_id = Str(key_txt)
    /\ Len(log) > 0
    /\ reply.backend_calls = <<>>
    /\ reply.get_agent_calls = 0

(***************************************************************************)
(* Claims about the conversation handed to the model (SpecRouter).         *)
(***************************************************************************)
ModelCalled == Served /\ reply.model_calls # <<>>

\* The conversation of the request's model call.
Conversation == reply.model_calls[1]

NamesDocument == Served /\ Truthy(reply.request.document_id)

\* What the resolver returns for the request's document id.
Context ==
    get_document_context(reply.request.document_id.v, reply.bucket, reply.s3).ret

ResolvedDocument == NamesDocument /\ ~IsExc(Context)

ResolvedNonEmpty == ResolvedDocument /\ Context.d["content"] # Str(<<>>)

\* The instructions of the agent of each mode.
InstructionsOf(mode) ==
    CASE mode = "analyze" -> "DOCUMENT_ANALYZER_INSTRUCTIONS"
      [] mode = "edit"    -> "DOCUMENT_EDITOR_INSTRUCTIONS"
      [] mode = "create"  -> "DOCUMENT_CREATOR_INSTRUCTIONS"

\* The instructions, and the request's extra instruction after a blank line.
InstructionsText(request) ==
    <<InstructionsOf(request.mode)>>
    \o (IF request.instruction \in {None, Str(<<>>)} THEN <<>>
        ELSE <<"\n\n">> \o request.instruction.v)

\* Elements first+1 .. first+k of the conversation are the k prior messages,
\* in order, with role and content unchanged.
PriorMessagesFollow(first) ==
    \A i \in DOMAIN reply.request.messages :
        /\ Conversation[first + i].role = reply.request.messages[i].role
        /\ Conversation[first + i].content = reply.request.messages[i].content

\* C11 (as claimed): with a non-empty resolved document and k prior messages
\* the conversation has length k+2: the system-instructions message, then a
\* separate system message holding the document content, then the prior
\* messages in order and unchanged.
C11_SeparateDocumentMessage ==
    (ModelCalled /\ ResolvedNonEmpty) =>
        /\ Len(Conversation) = Len(reply.request.messages) + 2
        /\ Conversation[1] = [role |-> "system", content |-> Str(InstructionsText(reply.request))]
        /\ Conversation[2].role = "system"
        /\ Conversation[2].content = Context.d["content"]
        /\ PriorMessagesFollow(2)

\* C11 (amended): with a non-empty resolved document and k prior messages
\* the conversation has length k+1: one system message holding the
\* instructions (and the extra instruction) followed by
\* "\n\nDocument content:\n" and the document content, then the prior
\* messages in order and unchanged.
C11_DocumentInSystemMessage ==
    (ModelCalled /\ ResolvedNonEmpty) =>
        /\ Len(Conversation) = Len(reply.request.messages) + 1
        /\ Conversation[1] =
             [role |-> "system",
              content |-> Str(InstructionsText(reply.request)
                              \o <<"\n\nDocument content:\n">>
                              \o Context.d["content"].v)]
        /\ PriorMessagesFollow(1)

\* A request with two prior messages, an extra instruction and a document
\* S3 holds, whose model call was made.
C11_Witness ==
    /\ ModelCalled
    /\ ResolvedNonEmpty
    /\ Len(reply.request.messages) = 2
    /\ reply.request.instruction # None
    /\ reply.backend_calls = <<"s3">>

ResolvedEmpty == ResolvedDocument /\ Context.d["content"] = Str(<<>>)

\* C12 (as claimed): for a request with no document id, and for a request
\* whose document resolved to the empty string, the conversation holds no
\* document-content message and no document-content text: it is the system
\* message with the instructions (and the extra instruction), then the prior
\* messages.
C12_NoInjectionWhenEmpty ==
    (ModelCalled /\ (~NamesDocument \/ ResolvedEmpty)) =>
        /\ Len(Conversation) = Len(reply.request.messages) + 1
        /\ Conversation[1] = [role |-> "system", content |-> Str(InstructionsText(reply.request))]
        /\ PriorMessagesFollow(1)

(***************************************************************************)
(* Claims about the frames of /message/stream (SpecRouter).                *)
(***************************************************************************)
StreamServed == Served /\ reply.endpoint = "/message/stream"

\* The model stream was started: run_stream was called.
Streaming == StreamServed /\ reply.model_calls # <<>>

Frames == reply.frames

IsError(frame) == "error" \in DOMAIN frame
IsFinal(frame) == "is_complete" \in DOMAIN frame /\ frame.is_complete
IsChunk(frame) == "is_complete" \in DOMAIN frame /\ ~frame.is_complete
IsTerminal(frame) == IsError(frame) \/ IsFinal(frame)

\* The first N frames are the N chunks, in order, each with is_complete =
\* false.
ChunksFirst ==
    \A i \in DOMAIN reply.run.chunks :
        IsChunk(Frames[i]) /\ Frames[i].content = reply.run.chunks[i]

\* C13: when the model stream delivers N chunks and ends normally, the
\* response is N frames with is_complete = false, in chunk order, then one
\* frame with is_complete = true, and nothing after it.
C13_ChunksThenOneFinal ==
    (Streaming /\ ~reply.run.raises) =>
        /\ Len(Frames) = Len(reply.run.chunks) + 1
        /\ ChunksFirst
        /\ IsFinal(Frames[Len(Frames)])

C13_Witness ==
    /\ Streaming
    /\ ~reply.run.raises
    /\ Len(reply.run.chunks) = 3
    /\ Len(Frames) = 4
    /\ IsFinal(Frames[4])

\* C14: when the model stream fails after N chunks, the response is the N
\* non-terminal frames then one error frame, which is last; and no stream
\* holds two terminal frames (error or is_complete = true).
C14_ChunksThenOneError ==
    /\ (Streaming /\ reply.run.raises) =>
          /\ Len(Frames) = Len(reply.run.chunks) + 1
          /\ ChunksFirst
          /\ IsError(Frames[Len(Frames)])
    /\ StreamServed =>
          Cardinality({i \in DOMAIN Frames : IsTerminal(Frames[i])}) <= 1

C14_Witness ==
    /\ Streaming
    /\ reply.run.raises
    /\ Len(reply.run.chunks) = 3
    /\ IsError(Frames[4])

\* The concatenation of the content of frames 1..n.
RECURSIVE Accumulated(_)
Accumulated(n) == IF n = 0 THEN <<>> ELSE Accumulated(n - 1) \o Frames[n].content.v

\* C15 (as claimed): the is_complete = true frame of a successful stream
\* carries the accumulated content, the concatenation of the content of the
\* non-terminal frames before it.
C15_FinalCarriesAccumulated ==
    (Streaming /\ ~reply.run.raises) =>
        Frames[Len(Frames)].content = Str(Accumulated(Len(Frames) - 1))

\* C15 (amended): the is_complete = true frame of a successful stream
\* carries the empty string as content, whatever the non-terminal frames
\* carried.
C15_FinalCarriesEmpty ==
    (Streaming /\ ~reply.run.raises) =>
        /\ IsFinal(Frames[Len(Frames)])
        /\ Frames[Len(Frames)].content = Str(<<>>)

C15_Witness ==
    /\ Streaming
    /\ ~reply.run.raises
    /\ Len(reply.run.chunks) = 3
    /\ Accumulated(3) # <<>>
    /\ Frames[4].content = Str(<<>>)

\* C16: document metadata appears on the terminal frame only: no frame
\* other than the is_complete = true frame has a document field, and when a
\* document was resolved that frame carries the metadata the resolver
\* returned for the request.
C16_DocumentOnFinalOnly ==
    StreamServed =>
        \A i \in DOMAIN Frames :
            IF IsFinal(Frames[i])
            THEN ResolvedDocument => Frames[i].document = Context.d["metadata"]
            ELSE "document" \notin DOMAIN Frames[i]

\* A stream of two chunks or more for a document resolved from S3, ended
\* normally.
C16_Witness ==
    /\ Streaming
    /\ ResolvedDocument
    /\ reply.backend_calls = <<"s3">>
    /\ Len(reply.run.chunks) >= 2
    /\ IsFinal(Frames[Len(Frames)])
    /\ Frames[Len(Frames)].document # Dict(<<>>)
    /\ Frames[Len(Frames)].document # None

\* C17 (as claimed): the message id is carried unchanged by every frame of
\* the stream, the terminal frame included, whether the stream ends in
\* success or in error.
C17_IdOnEveryFrame ==
    Streaming =>
        \A i \in DOMAIN Frames :
            "id" \in DOMAIN Frames[i] /\ Frames[i].id = Frames[1].id

\* C17 (amended): every frame with an is_complete flag (the chunk frames and
\* the is_complete = true frame) carries the one message id; an error frame
\* carries the error text alone, without an id.
C17_IdOnEveryFlaggedFrame ==
    Streaming =>
        \A i \in DOMAIN Frames :
            IF IsError(Frames[i])
            THEN DOMAIN Frames[i] = {"error"}
            ELSE Frames[i].id = reply.now /\ Frames[i].id = Frames[1].id

C17_Witness ==
    /\ Streaming
    /\ reply.run.raises
    /\ Len(reply.run.chunks) = 3
    /\ Frames[1].id = Frames[3].id
    /\ IsError(Frames[4])

SyncServed == Served /\ reply.endpoint = "/message"

\* What makes a request fail: the mode, the document, the agent, the model.
InvalidMode == Served /\ reply.request.mode \notin ValidModes
Unresolved == NamesDocument /\ IsExc(Context)
NoAgent == Served /\ reply.get_agent_calls = 1 /\ reply.model_calls = <<>>
ModelFailed == ModelCalled /\ reply.run.raises

ShouldFail == InvalidMode \/ Unresolved \/ NoAgent \/ ModelFailed

\* The request was answered with an error: a status other than 200 on
\* /message, an error frame at the end of the stream on /message/stream.
Failed ==
    /\ Served
    /\ IF reply.endpoint = "/message" THEN reply.status_code # 200
       ELSE Frames # <<>> /\ IsError(Frames[Len(Frames)])

\* The boundary status code of each failure.
BoundaryStatus ==
    IF InvalidMode THEN 400 ELSE IF Unresolved THEN 404 ELSE 500

\* The JSON object that reports the error: on /message the body FastAPI
\* renders for an HTTPException, {"detail": detail}; on /message/stream the
\* last frame.
ErrorPayload ==
    IF reply.endpoint = "/message" THEN [detail |-> reply.detail]
    ELSE Frames[Len(Frames)]

\* C19 (as claimed): every request that fails, on either endpoint, is
\* answered with status 400 (invalid mode), 404 (unresolved document) or 500
\* (invocation or backend failure) and a body of the form {error: string}.
C19_BoundaryStatusAndErrorBody ==
    ShouldFail =>
        /\ Failed
        /\ reply.status_code = BoundaryStatus
        /\ DOMAIN ErrorPayload = {"error"}
        /\ ErrorPayload.error.t = "str"

\* C19 (amended): a request that fails on /message is answered with status
\* 400 (invalid mode), 404 (unresolved document) or 500 (no agent, model
\* failure) and the body {detail: string}; a request that fails on
\* /message/stream is answered with status 200 and a stream whose last frame
\* is {error: string}.
C19_StatusOnSyncErrorFrameOnStream ==
    ShouldFail =>
        /\ Failed
        /\ IF reply.endpoint = "/message"
           THEN /\ reply.status_code = BoundaryStatus
                /\ DOMAIN ErrorPayload = {"detail"}
                /\ ErrorPayload.detail.t = "str"
           ELSE /\ reply.status_code = 200
                /\ DOMAIN ErrorPayload = {"error"}
                /\ ErrorPayload.error.t = "str"

\* A request on /message for a document no backend resolves, answered 404.
C19_Witness ==
    /\ SyncServed
    /\ ~InvalidMode
    /\ Unresolved
    /\ reply.backend_calls = <<"s3", "db">>
    /\ reply.status_code = 404

\* C20 (as claimed): a request on /message with a valid mode, a document id
\* some backend resolves and a model call returning content c is answered
\* with a message of role assistant, content c and a non-empty id, and with
\* the metadata of the resolved document; the conversation sent to the
\* model has at least 2 messages.
C20_AnswerAndTwoMessages ==
    (SyncServed /\ ~InvalidMode /\ ResolvedDocument /\ ModelCalled /\ ~reply.run.raises) =>
        /\ reply.status_code = 200
        /\ reply.body.message.role = "assistant"
        /\ reply.body.message.content = reply.run.content
        /\ reply.body.message.id # Str(<<>>) /\ reply.body.message.id # None
        /\ reply.body.document = Context.d["metadata"]
        /\ Len(Conversation) >= 2

\* C20 (amended): the same answer, and the conversation sent to the model
\* has one message more than the request has prior messages, hence at least
\* 1 message (exactly 1 when the request has no prior message).
C20_AnswerAndOneMessageMore ==
    (SyncServed /\ ~InvalidMode /\ ResolvedDocument /\ ModelCalled /\ ~reply.run.raises) =>
        /\ reply.status_code = 200
        /\ reply.body.message.role = "assistant"
        /\ reply.body.message.content = reply.run.content
        /\ reply.body.message.id # Str(<<>>) /\ reply.body.message.id # None
        /\ reply.body.document = Context.d["metadata"]
        /\ Len(Conversation) = Len(reply.request.messages) + 1
        /\ Len(Conversation) >= 1

\* The request {mode: "edit", document_id: "test-document", messages: [one
\* user message]}, resolved by the database and answered.
C20_Witness ==
    /\ SyncServed
    /\ reply.request.mode = "edit"
    /\ reply.request.document_id = Str(test_document)
    /\ Len(reply.request.messages) = 1
    /\ reply.backend_calls = <<"s3", "db">>
    /\ reply.status_code = 200
    /\ reply.body.message.content = Text("Corrected text.")
    /\ Len(Conversation) = 2

(***************************************************************************)
(* Claims about failed construction (SpecRouter).                          *)
(***************************************************************************)
\* The request's get_agent call ran the constructor, which raised.
ConstructionFailed ==
    /\ Served
    /\ reply.get_agent_calls = 1
    /\ reply.constructed = 1
    /\ reply.raises

FailedToInitialize(mode) == Str(<<"Failed to initialize agent for mode: ", mode>>)

\* C21: when the constructor raises for a valid mode, get_agent returns None
\* (the exception does not leave it) and _agents gets no entry for the mode;
\* the request that met the failure is answered 500 "Failed to initialize
\* agent" on /message and with that single error frame on /message/stream,
\* and the model is not called.
C21_FailedConstructionIsNull ==
    /\ \A i \in DOMAIN log :
          (IsGet(i) /\ log[i].raised) =>
              /\ log[i].mode \in ValidModes
              /\ log[i].ret = None
              /\ log[i].agentsAfter = log[i].agentsBefore
              /\ log[i].mode \notin DOMAIN log[i].agentsAfter
    /\ ConstructionFailed =>
          /\ reply.request.mode \in ValidModes
          /\ reply.request.mode \notin DOMAIN _agents
          /\ reply.model_calls = <<>>
          /\ IF reply.endpoint = "/message"
             THEN /\ reply.status_code = 500
                  /\ reply.detail = FailedToInitialize(reply.request.mode)
                  /\ reply.body = None
             ELSE reply.frames = <<ErrorFrame(FailedToInitialize(reply.request.mode))>>

\* A streaming request whose construction failed, after an earlier lookup of
\* another mode that succeeded.
C21_Witness ==
    /\ ConstructionFailed
    /\ reply.endpoint = "/message/stream"
    /\ _agents # <<>>
    /\ reply.request.mode \notin DOMAIN _agents
    /\ Len(reply.frames) = 1

(***************************************************************************)
(* More claims about the registry (SpecRegistry).                          *)
(***************************************************************************)
NoReset == \A i \in DOMAIN log : ~IsReset(i)

\* The calls that built an instance for the mode: the constructor ran and
\* did not raise.
Constructions(mode) ==
    {i \in DOMAIN log : IsGet(i) /\ log[i].mode = mode /\ log[i].ran = 1 /\ ~log[i].raised}

\* The calls that returned an agent for the mode.
SuccessfulLookups(mode) ==
    {i \in DOMAIN log : IsGet(i) /\ log[i].mode = mode /\ log[i].ret # None}

\* C22: over any sequence of get_agent calls with no reset in between, for
\* recognised and unrecognised modes (four distinct mode strings overflow
\* the lru_cache of size 3), an instance is built at most once for each
\* recognised mode and every lookup of the mode that returns an agent
\* returns that one instance.
C22_AtMostOneInstancePerMode ==
    NoReset =>
        \A mode \in ValidModes :
            /\ Cardinality(Constructions(mode)) <= 1
            /\ \A i, j \in SuccessfulLookups(mode) : log[i].ret = log[j].ret

\* Five calls without reset: a recognised mode is built, three other mode
\* strings push it out of the lru_cache, and it is looked up again.
C22_Witness ==
    /\ NoReset
    /\ Len(log) = 5
    /\ log[1].mode \in ValidModes
    /\ log[1].ran = 1 /\ ~log[1].raised
    /\ log[5].mode = log[1].mode
    /\ log[5].mode \notin log[5].keysBefore
    /\ Cardinality(log[5].keysBefore) = lru_maxsize
    /\ log[5].ret = log[1].ret

\* The fixed configuration of each mode: name, tools, model.
NameOf(mode) ==
    CASE mode = "analyze" -> "document_analyzer"
      [] mode = "edit"    -> "document_editor"
      [] mode = "create"  -> "document_creator"

ToolsOf(mode) ==
    CASE mode = "analyze" -> <<"summarize_document", "extract_key_points">>
      [] mode = "edit"    -> <<"edit_section">>
      [] mode = "create"  -> <<"create_section">>

\* value is a fully constructed agent for the mode: every field of the
\* configuration is there and is the mode's.
FullyConstructed(value, mode) ==
    /\ mode \in ValidModes
    /\ value # None
    /\ DOMAIN value = {"t", "model", "instructions", "tools", "name", "id"}
    /\ value.t = "Agent"
    /\ value.name = NameOf(mode)
    /\ value.tools = ToolsOf(mode)
    /\ value.instructions = InstructionsOf(mode)
    /\ value.model = "gpt-4o"

\* A constructor call for the mode raised in call i or before it.
FailedBefore(i) ==
    \E j \in 1..i : IsGet(j) /\ log[j].mode = log[i].mode /\ log[j].raised

\* C23: under any interleaving of lookups (first lookups of one mode among
\* them) and resets, each call running as a whole, the value _agents holds
\* for a mode is absent or a fully constructed agent for that mode, before
\* and after every call; and every caller receives a fully constructed agent
\* for the mode it asked for, unless the mode is unrecognised or a
\* construction for it has raised.
C23_CachedAndReturnedAgentsAreWhole ==
    /\ \A mode \in DOMAIN _agents : FullyConstructed(_agents[mode], mode)
    /\ \A i \in DOMAIN log :
          /\ \A mode \in DOMAIN log[i].agentsBefore :
                FullyConstructed(log[i].agentsBefore[mode], mode)
          /\ IsGet(i) =>
                IF log[i].ret = None
                THEN log[i].mode \notin ValidModes \/ FailedBefore(i)
                ELSE FullyConstructed(log[i].ret, log[i].mode)

\* Two first lookups of one mode around a reset, with another mode looked
\* up in between: both callers hold an agent for the mode.
C23_Witness ==
    \E i, j, k \in DOMAIN log :
        /\ i < k /\ k < j
        /\ IsGet(i) /\ IsGet(j) /\ IsReset(k)
        /\ log[i].mode = log[j].mode
        /\ log[i].ret # None /\ log[j].ret # None
        /\ \E h \in DOMAIN log : IsGet(h) /\ log[h].mode # log[i].mode /\ log[h].ret # None

\* C25: each mode builds its own fixed configuration and the cache never
\* cross-wires them: in every reachable state the agent _agents holds under
\* analyze is document_analyzer with tools [summarize_document,
\* extract_key_points], under edit document_editor with [edit_section],
\* under create document_creator with [create_section], all with model
\* gpt-4o, and _agents has no key outside {analyze, edit, create}; the agents
\* the lru_cache holds are under the key of their configuration too.
C25_OwnConfigurationPerMode ==
    /\ DOMAIN _agents \subseteq {"analyze", "edit", "create"}
    /\ "analyze" \in DOMAIN _agents =>
          /\ _agents["analyze"].name = "document_analyzer"
          /\ _agents["analyze"].tools = <<"summarize_document", "extract_key_points">>
          /\ _agents["analyze"].model = "gpt-4o"
    /\ "edit" \in DOMAIN _agents =>
          /\ _agents["edit"].name = "document_editor"
          /\ _agents["edit"].tools = <<"edit_section">>
          /\ _agents["edit"].model = "gpt-4o"
    /\ "create" \in DOMAIN _agents =>
          /\ _agents["create"].name = "document_creator"
          /\ _agents["create"].tools = <<"create_section">>
          /\ _agents["create"].model = "gpt-4o"
    /\ \A i \in DOMAIN lru :
          lru[i].value # None =>
              /\ lru[i].key \in {"analyze", "edit", "create"}
              /\ lru[i].value.name = NameOf(lru[i].key)
              /\ lru[i].value.tools = ToolsOf(lru[i].key)

\* All three modes are cached, after a lookup of an unrecognised mode.
C25_Witness ==
    /\ DOMAIN _agents = {"analyze", "edit", "create"}
    /\ \E i \in DOMAIN log : IsGet(i) /\ log[i].mode \notin ValidModes

(***************************************************************************)
(* Claims about calls that never return (SpecWaits).                       *)
(***************************************************************************)
\* The request is waiting on a call that never returns.
Pending == Served /\ reply.waiting # ""

\* The request has been answered with an invocation error: 500 on /message,
\* an error frame at the end of the stream on /message/stream.
TimedOut ==
    /\ Served
    /\ reply.waiting = ""
    /\ IF reply.endpoint = "/message" THEN reply.status_code = 500
       ELSE reply.frames # <<>> /\ IsError(reply.frames[Len(reply.frames)])

\* C24 (as claimed): a request whose storage call or model call never
\* returns does not wait forever: it eventually fails, with a 500 on
\* /message and a terminal error frame on /message/stream.
C24_NeverWaitsForever == Pending ~> TimedOut

(***************************************************************************)
(* Claims about remembered failures (SpecRegistry).                        *)
(***************************************************************************)
\* Call j is the first lookup of the mode of call i after call i.
NextLookup(i, j) ==
    /\ i < j
    /\ IsGet(i) /\ IsGet(j)
    /\ log[j].mode = log[i].mode
    /\ \A k \in (i + 1)..(j - 1) : ~(IsGet(k) /\ log[k].mode = log[i].mode)

\* C26 (as claimed): a construction failure is not remembered: the lookup of
\* a mode that follows a lookup in which the constructor raised calls the
\* constructor again, and returns the agent when the constructor does not
\* raise this time.
C26_FailureNotRemembered ==
    \A i, j \in DOMAIN log :
        (NextLookup(i, j) /\ log[i].raised) =>
            /\ log[j].ran = 1
            /\ ~log[j].raised => FullyConstructed(log[j].ret, log[j].mode)

(***************************************************************************)
(* More claims about the document layer (SpecDocument).                    *)
(***************************************************************************)
\* C27 (as claimed): get_document_from_s3 returns (None, None) or a pair
\* whose content and metadata are both not None, for every object body and
\* content type, a JSON object whose content field is null included.
C27_BothNullOrNeither ==
    s3call # None =>
        /\ s3call.ret.t = "return"
        /\ \/ s3call.ret = Ret(None, None)
           \/ s3call.ret.content # None /\ s3call.ret.metadata # None

(***************************************************************************)
(* More claims about the endpoints (SpecRouter).                           *)
(***************************************************************************)
\* _agents as the registry calls before the request left it.
AgentsBeforeRequest == IF log = <<>> THEN <<>> ELSE log[Len(log)].agentsAfter

\* C28: on both endpoints the document is resolved before the registry is
\* asked: a request with a valid mode whose document id no backend resolves
\* ends in the not-found outcome (404 on /message, the single error frame on
\* /message/stream) after both backends were asked, with no
\* AgentFactory.get_agent call, no construction, _agents as it was, and no
\* model call.
C28_NotFoundBeforeRegistry ==
    (Served /\ ~InvalidMode /\ Unresolved) =>
        /\ reply.backend_calls = <<"s3", "db">>
        /\ reply.get_agent_calls = 0
        /\ reply.constructed = 0
        /\ _agents = AgentsBeforeRequest
        /\ reply.model_calls = <<>>
        /\ IF reply.endpoint = "/message"
           THEN /\ reply.status_code = 404
                /\ reply.detail = Str(<<"Document not found: ">> \o reply.request.document_id.v)
           ELSE Len(reply.frames) = 1 /\ IsError(reply.frames[1])

\* A request for a JSON object whose content is null, which no backend
\* resolves, in a mode the registry holds nothing for.
C28_Witness ==
    /\ Served /\ ~InvalidMode /\ Unresolved
    /\ reply.request.document_id = Str(key_json)
    /\ reply.request.mode \notin DOMAIN _agents
    /\ ~reply.raises
    /\ reply.get_agent_calls = 0

(***************************************************************************)
(* The two endpoints compared (SpecBoth).                                  *)
(***************************************************************************)
Compared == reply # None /\ reply.endpoint = "both"

\* C29: for the same request and the same backend and registry state,
\* /message and /message/stream hand the model the identical message
\* sequence (and call the model in the same cases).
C29_SameConversation ==
    Compared => reply.sync_calls = reply.stream_calls

\* A request with an extra instruction, a resolved document and two prior
\* messages, for which both endpoints called the model.
C29_Witness ==
    /\ Compared
    /\ reply.sync_calls # <<>>
    /\ reply.stream_calls # <<>>
    /\ reply.request.instruction # None
    /\ reply.sync_backend_calls # <<>>
    /\ Len(reply.request.messages) = 2
    /\ Len(reply.stream_calls[1]) = 3

(***************************************************************************)
(* Claims about failed extraction (SpecDocument).                          *)
(***************************************************************************)
\* The object of the call was fetched, is handled as `format` (pdf or docx)
\* and does not parse as that format.
ParseFails(call, key, format) ==
    /\ call # None
    /\ Fetched(call)
    /\ FirstNamed(DeclaredType(call), key) = format
    /\ IF format = "pdf" THEN call.s3.response.Body.pdf = None
       ELSE call.s3.response.Body.docx = None

ErrorText(format) ==
    IF format = "pdf" THEN Text("Error extracting text from PDF document")
    ELSE Text("Error extracting text from DOCX document")

\* C30: a PDF or DOCX whose parsing fails is reported as resolved:
\* get_document_from_s3 returns the fixed error message of the format as
\* content, with metadata, and get_document_context returns that content
\* and metadata without asking the database and without the 404.
C30_FailedParseIsResolved ==
    \A format \in {"pdf", "docx"} :
        /\ ParseFails(s3call, IF s3call = None THEN <<>> ELSE s3call.s3_key, format) =>
              /\ s3call.ret.t = "return"
              /\ s3call.ret.content = ErrorText(format)
              /\ s3call.ret.metadata # None
        /\ (Resolving /\ ParseFails(ctxcall, ctxcall.document_id, format)) =>
              /\ ctxcall.out.calls = <<"s3">>
              /\ ctxcall.out.db = None
              /\ ctxcall.out.ret.t = "dict"
              /\ ctxcall.out.ret.d["content"] = ErrorText(format)
              /\ ctxcall.out.ret.d["metadata"] = ctxcall.out.s3.metadata
              /\ ctxcall.out.ret.d["metadata"] # Dict(<<>>)

\* The document 'test-document', which the database holds, resolved from S3
\* as a PDF that does not parse.
C30_Witness ==
    /\ Resolving
    /\ ParseFails(ctxcall, ctxcall.document_id, "pdf")
    /\ ctxcall.document_id = test_document
    /\ ctxcall.s3.response.Body.name = "text"
    /\ ctxcall.out.ret.t = "dict"
    /\ ctxcall.out.ret.d["content"] = PDF_ERROR

====
